---- MODULE Spec2Model ----
(***************************************************************************)
(* A model of JsonDocument (src/ArduinoJson/Document/JsonDocument.hpp):    *)
(* a document owns one memory pool (resources_) and one root variant       *)
(* (data_).  The pool hands out fixed-size slots; the elements of the root *)
(* array / members of the root object are slots chained by relative        *)
(* "next" links, and the root holds absolute head/tail pointers.           *)
(* Sizes are counted in slots.                                             *)
(***************************************************************************)
EXTENDS Integers, Sequences, FiniteSets, TLC

\* Bound: the largest pool capacity (in slots) a document is constructed with.
MaxCap == 2

\* The documents of the program; "tmp" is the temporary of garbageCollect().
Docs == {"d", "o"}
AllDocs == Docs \cup {"tmp"}

\* The regions the platform allocator can hand out (one pool each).
Regions == {1, 2, 3}
RegionSeq == <<1, 2, 3>>
RegionSpan == MaxCap + 1
BaseOf(r) == r * RegionSpan
Addrs == { BaseOf(r) + k : r \in Regions, k \in 0..(MaxCap - 1) }

\* Scalar values and member keys used by the operations.
Values == {1, 2}
Keys == {"a", "b"}
NoKey == "-"

VARIABLES
  doc,    \* doc[i] = [resources |-> pool bookkeeping, data |-> root variant]
  mem,    \* the heap: address -> slot content
  last    \* the last observed call: its name, document, source document,
          \* return value, and the document's memoryUsage() just before it

vars == <<doc, mem, last>>

-----------------------------------------------------------------------------
(* detail::ResourceManager: the memory pool                                *)

FreeSlot == [key |-> NoKey, value |-> 0, next |-> 0]
EmptyPool == [base |-> 0, capacity |-> 0, usage |-> 0, overflowed |-> FALSE]
NullData == [type |-> "null", value |-> 0, head |-> 0, tail |-> 0]

\* The state handed from one call to the next: documents, heap, return value.
World == [doc |-> doc, mem |-> mem, ret |-> TRUE]

WithDoc(W, i, d) == [W EXCEPT !.doc[i] = d]
WithRes(W, i, r) == [W EXCEPT !.doc[i].resources = r]
WithData(W, i, v) == [W EXCEPT !.doc[i].data = v]
WithRet(W, b) == [W EXCEPT !.ret = b]

\* Slots [base+from, base+to) become unallocated.
Wipe(m, base, from, to) ==
  IF from >= to THEN m
  ELSE [a \in Addrs |->
          IF a >= base + from /\ a < base + to THEN FreeSlot ELSE m[a]]

RegionInUse(W, r) == \E i \in AllDocs : W.doc[i].resources.base = BaseOf(r)

\* The allocator's answer to a request: a free region, or 0 when it fails.
\* Free regions are interchangeable, so the lowest one stands for all.
FreeRegions(W) == {r \in Regions : ~RegionInUse(W, r)}
LowestFree(W) ==
  LET free == FreeRegions(W)
  IN IF free = {} THEN {} ELSE {CHOOSE r \in free : \A q \in free : r <= q}
Grants(W) == {0} \cup LowestFree(W)

\* ResourceManager(capa, alloc): the pool is null when capa is 0 or the
\* allocator fails.
allocPool(capa, r) ==
  IF capa = 0 \/ r = 0 THEN EmptyPool
  ELSE [base |-> BaseOf(r), capacity |-> capa, usage |-> 0, overflowed |-> FALSE]

\* ~ResourceManager / deallocPool
deallocPool(W, i) ==
  LET res == W.doc[i].resources
  IN [WithRes(W, i, EmptyPool) EXCEPT
        !.mem = Wipe(W.mem, res.base, 0, IF res.base = 0 THEN 0 ELSE res.capacity)]

\* ResourceManager::clear(): used size back to zero, overflow flag cleared,
\* the region is kept.
clearPool(W, i) ==
  LET res == W.doc[i].resources
  IN [WithRes(W, i, [res EXCEPT !.usage = 0, !.overflowed = FALSE]) EXCEPT
        !.mem = Wipe(W.mem, res.base, 0, IF res.base = 0 THEN 0 ELSE res.usage)]

\* ResourceManager::allocVariant(): the address of a fresh slot, or 0 and the
\* overflow flag when the pool is full.
allocSlotAddr(W, i) ==
  LET res == W.doc[i].resources
  IN IF res.usage < res.capacity THEN res.base + res.usage ELSE 0

allocSlot(W, i) ==
  LET res == W.doc[i].resources
  IN IF res.usage < res.capacity
     THEN WithRes(W, i, [res EXCEPT !.usage = res.usage + 1])
     ELSE WithRes(W, i, [res EXCEPT !.overflowed = TRUE])

\* ResourceManager::reallocPool(capa): grow to capa when larger (contents
\* copied verbatim to the new region r), no-op otherwise; a failed growth
\* leaves the pool as it is with the overflow flag set.
reallocPool(W, i, capa, r) ==
  LET res == W.doc[i].resources
  IN IF capa <= res.capacity THEN W
     ELSE IF r = 0 THEN WithRes(W, i, [res EXCEPT !.overflowed = TRUE])
     ELSE LET nb == BaseOf(r)
              moved == [a \in Addrs |->
                          IF a >= nb /\ a < nb + res.usage /\ res.base # 0
                          THEN W.mem[res.base + (a - nb)] ELSE W.mem[a]]
          IN [WithRes(W, i, [res EXCEPT !.base = nb, !.capacity = capa]) EXCEPT
                !.mem = Wipe(moved, res.base, 0,
                             IF res.base = 0 THEN 0 ELSE res.capacity)]

\* ResourceManager::shrinkToFit(): "reduces the capacity of the memory pool
\* to match the current usage".  The region is reallocated to the used size
\* (to region r, possibly the same one) and moves as one block: the caller
\* passes no root to walk and gets a single distance back, which it applies
\* to every pointer alike.  Unlinked slots lie inside the used size and stay.
shrinkPoolOffset(W, i, r) ==
  LET res == W.doc[i].resources
  IN IF res.usage = 0 \/ res.base = 0 THEN 0 ELSE BaseOf(r) - res.base

shrinkPool(W, i, r) ==
  LET res == W.doc[i].resources
      nb == BaseOf(r)
  IN IF res.base = 0 THEN W
     ELSE IF res.usage = 0 THEN deallocPool(W, i)
     ELSE LET moved == [a \in Addrs |->
                          IF a >= nb /\ a < nb + res.usage
                          THEN W.mem[res.base + (a - nb)] ELSE W.mem[a]]
              freed == [a \in Addrs |->
                          IF a >= res.base /\ a < res.base + res.capacity
                             /\ ~(a >= nb /\ a < nb + res.usage)
                          THEN FreeSlot ELSE moved[a]]
          IN [WithRes(W, i, [res EXCEPT !.base = nb, !.capacity = res.usage])
                EXCEPT !.mem = freed]

-----------------------------------------------------------------------------
(* detail::VariantData / CollectionData: the root and its slot chain       *)

NextOf(m, a) == IF m[a].next = 0 THEN 0 ELSE a + m[a].next

\* The addresses of the chain that starts at a.
RECURSIVE Walk(_, _, _)
Walk(m, a, fuel) ==
  IF a = 0 \/ fuel = 0 \/ a \notin Addrs THEN <<>>
  ELSE <<a>> \o Walk(m, NextOf(m, a), fuel - 1)

IsCollection(v) == v.type \in {"array", "object"}

Chain(W, i) ==
  LET v == W.doc[i].data
  IN IF IsCollection(v) THEN Walk(W.mem, v.head, MaxCap + 1) ELSE <<>>

\* The value graph of document i: tag, scalar value, and the ordered
\* (key, value) entries of the root collection.
Graph(W, i) ==
  LET v == W.doc[i].data
      c == Chain(W, i)
  IN [type |-> v.type, value |-> v.value,
      items |-> [n \in 1..Len(c) |->
                   [key |-> W.mem[c[n]].key, value |-> W.mem[c[n]].value]]]

\* VariantData::size()
dataSize(W, i) == Len(Chain(W, i))

\* VariantData::reset()
resetData(W, i) == WithData(W, i, NullData)

\* VariantData::movePointers(offset): non-null pointers move by offset.
movePointers(W, i, offset) ==
  LET v == W.doc[i].data
  IN WithData(W, i, [v EXCEPT
       !.head = IF v.head = 0 THEN 0 ELSE v.head + offset,
       !.tail = IF v.tail = 0 THEN 0 ELSE v.tail + offset])

\* VariantData::to<T>(): the variant becomes an empty array / object.
toCollection(W, i, t) ==
  WithData(W, i, [type |-> t, value |-> 0, head |-> 0, tail |-> 0])

\* VariantData::setInteger()
setScalar(W, i, val) ==
  WithData(W, i, [type |-> "int", value |-> val, head |-> 0, tail |-> 0])

\* CollectionData::addSlot(): allocate a slot and link it after the tail.
\* ret is FALSE, and the overflow flag is raised, when the pool is full.
appendSlot(W, i, k, val) ==
  LET a == allocSlotAddr(W, i)
      W1 == allocSlot(W, i)
      v == W1.doc[i].data
      m1 == [W1.mem EXCEPT ![a] = [key |-> k, value |-> val, next |-> 0]]
      m2 == IF v.tail = 0 THEN m1
            ELSE [m1 EXCEPT ![v.tail].next = a - v.tail]
  IN IF a = 0 THEN WithRet(W1, FALSE)
     ELSE [WithData(W1, i, [v EXCEPT
              !.head = IF v.head = 0 THEN a ELSE v.head, !.tail = a])
            EXCEPT !.mem = m2, !.ret = TRUE]

\* VariantData::addElement(): a Null root becomes an array first; any other
\* non-array root refuses.
addElement(W, i, val) ==
  LET v == W.doc[i].data
      W1 == IF v.type = "null" THEN toCollection(W, i, "array") ELSE W
  IN IF v.type \notin {"null", "array"} THEN WithRet(W, FALSE)
     ELSE appendSlot(W1, i, NoKey, val)

\* The address of the member with key k, or 0.
findMember(W, i, k) ==
  LET c == Chain(W, i)
      hits == {n \in 1..Len(c) : W.mem[c[n]].key = k}
  IN IF W.doc[i].data.type # "object" \/ hits = {} THEN 0
     ELSE c[CHOOSE n \in hits : \A h \in hits : n <= h]

\* VariantData::getOrAddMember() followed by set(): a Null root becomes an
\* object first; an existing key is overwritten in place.
setMember(W, i, k, val) ==
  LET v == W.doc[i].data
      W1 == IF v.type = "null" THEN toCollection(W, i, "object") ELSE W
      a == findMember(W1, i, k)
  IN IF v.type \notin {"null", "object"} THEN WithRet(W, FALSE)
     ELSE IF a # 0 THEN [W1 EXCEPT !.mem[a].value = val, !.ret = TRUE]
     ELSE appendSlot(W1, i, k, val)

\* CollectionData::removeSlot(): unlink the n-th slot of the chain; the
\* slot itself stays allocated.  No pointer reaches it any more, so its
\* dead content is blanked.
unlinkSlot(W, i, n) ==
  LET c == Chain(W, i)
      v == W.doc[i].data
      a == c[n]
      nxt == IF n < Len(c) THEN c[n + 1] ELSE 0
      prv == IF n > 1 THEN c[n - 1] ELSE 0
      m0 == [W.mem EXCEPT ![a] = FreeSlot]
      m1 == IF prv = 0 THEN m0
            ELSE [m0 EXCEPT ![prv].next = IF nxt = 0 THEN 0 ELSE nxt - prv]
  IN [WithData(W, i, [v EXCEPT
         !.head = IF prv = 0 THEN nxt ELSE v.head,
         !.tail = IF nxt = 0 THEN prv ELSE v.tail])
       EXCEPT !.mem = m1]

\* variantRemoveElement()
removeElement(W, i, index) ==
  IF W.doc[i].data.type = "array" /\ index < dataSize(W, i)
  THEN unlinkSlot(W, i, index + 1) ELSE W

\* variantRemoveMember()
removeMember(W, i, k) ==
  LET c == Chain(W, i)
      hits == {n \in 1..Len(c) : W.mem[c[n]].key = k}
  IN IF W.doc[i].data.type = "object" /\ hits # {}
     THEN unlinkSlot(W, i, CHOOSE n \in hits : \A h \in hits : n <= h) ELSE W

\* VariantData::copy(): the deep copy of a graph g into the (cleared) root
\* of document i, entry by entry; it stops at the first failed allocation.
RECURSIVE copyItems(_, _, _, _)
copyItems(W, i, items, n) ==
  IF n > Len(items) THEN WithRet(W, TRUE)
  ELSE LET W1 == appendSlot(W, i, items[n].key, items[n].value)
       IN IF W1.ret THEN copyItems(W1, i, items, n + 1) ELSE W1

variantCopy(W, i, g) ==
  IF g.type = "null" THEN WithRet(resetData(W, i), TRUE)
  ELSE IF g.type = "int" THEN WithRet(setScalar(W, i, g.value), TRUE)
  ELSE copyItems(toCollection(W, i, g.type), i, g.items, 1)

-----------------------------------------------------------------------------
(* JsonDocument                                                            *)

\* JsonDocument(capa, alloc): resources_(capa, alloc), a null root.
JsonDocument(W, i, capa, r) ==
  WithDoc(W, i, [resources |-> allocPool(capa, r), data |-> NullData])

\* ~JsonDocument()
destroy(W, i) == resetData(deallocPool(W, i), i)

\* Mutant of memoryUsage(): the root variant is counted as a pool slot.
memoryUsageCountsRoot(W, i) == W.doc[i].resources.usage + 1

\* memoryUsage(): resources_.size()
memoryUsage(W, i) == W.doc[i].resources.usage

\* overflowed(): resources_.overflowed()
overflowed(W, i) == W.doc[i].resources.overflowed

\* resources_.capacity()
capacity(W, i) == W.doc[i].resources.capacity

\* size(): data_.size()
size(W, i) == dataSize(W, i)

\* Mutant of clear(): the pool is released instead of reset.
clearReleasesPool(W, i) == destroy(W, i)

\* clear(): resources_.clear(); data_.reset()
clear(W, i) == resetData(clearPool(W, i), i)

\* Mutant of to<T>(): clear() is left out.
toWithoutClear(W, i, t) ==
  WithRet(IF t = "null" THEN resetData(W, i) ELSE toCollection(W, i, t), TRUE)

\* to<T>(): clear(), then the root is converted to T ("null" stands for
\* to<JsonVariant>()).
to(W, i, t) ==
  LET W1 == clear(W, i)
  IN WithRet(IF t = "null" THEN W1 ELSE toCollection(W1, i, t), TRUE)

\* set(const JsonDocument& src): to<JsonVariant>().set(src.as<JsonVariantConst>())
\* The source is read after this document was cleared.
set(W, i, j) ==
  LET W1 == to(W, i, "null")
  IN variantCopy(W1, i, Graph(W1, j))

\* set(const T& src) with an integer: to<JsonVariant>().set(src)
setValue(W, i, val) == WithRet(setScalar(to(W, i, "null"), i, val), TRUE)

\* Mutant of the copy constructor: the pool is sized to src's used memory.
copyConstructSizedToUsage(W, i, j, r) ==
  set(JsonDocument(W, i, memoryUsage(W, j), r), i, j)

\* Mutant of the copy constructor: set(src) is left out.
copyConstructNoSet(W, i, j, r) ==
  WithRet(JsonDocument(W, i, capacity(W, j), r), TRUE)

\* JsonDocument(const JsonDocument& src): a pool of src's capacity, set(src)
copyConstruct(W, i, j, r) == set(JsonDocument(W, i, capacity(W, j), r), i, j)

\* Mutant of copyAssignFrom(): the pool is replaced by a fresh one of src's
\* capacity whatever its own capacity is.
copyAssignFromFreshPool(W, i, j, r) ==
  LET capa == capacity(W, j)
  IN set(WithRes(deallocPool(W, i), i, allocPool(capa, r)), i, j)

\* copyAssignFrom(src): resources_.reallocPool(src.capacity()); set(src)
copyAssignFrom(W, i, j, r) == set(reallocPool(W, i, capacity(W, j), r), i, j)

\* resources_ = move(src.resources_): the own pool is released, the
\* source's pool adopted, the source left with a null pool.
movePool(W, i, j) ==
  LET W1 == deallocPool(W, i)
  IN WithRes(WithRes(W1, i, W.doc[j].resources), j, EmptyPool)

\* Mutant of moveAssignFrom(): data_ = src.data_ is left out.
moveAssignFromKeepsData(W, i, j) == movePool(resetData(W, j), i, j)

\* Mutant of moveAssignFrom(): src.data_.reset() is left out.
moveAssignFromNoReset(W, i, j) ==
  movePool(WithData(W, i, W.doc[j].data), i, j)

\* moveAssignFrom(src): data_ = src.data_; src.data_.reset();
\* resources_ = move(src.resources_)
moveAssignFrom(W, i, j) ==
  movePool(resetData(WithData(W, i, W.doc[j].data), j), i, j)

\* JsonDocument(JsonDocument&& src): resources_(0, alloc); moveAssignFrom(src)
moveConstruct(W, i, j) == moveAssignFrom(JsonDocument(W, i, 0, 0), i, j)

\* Mutant of shrinkToFit(): data_.movePointers(offset) is left out.
shrinkToFitNoMovePointers(W, i, r) == shrinkPool(W, i, r)

\* Mutant of shrinkToFit(): the pool is not shrunk.
shrinkToFitKeepsCapacity(W, i, r) == movePointers(W, i, 0)

\* shrinkToFit(): offset = resources_.shrinkToFit(); data_.movePointers(offset)
shrinkToFit(W, i, r) ==
  movePointers(shrinkPool(W, i, r), i, shrinkPoolOffset(W, i, r))

\* Mutant of garbageCollect(): moveAssignFrom(tmp) is left out.
garbageCollectNoMove(W, i, r) ==
  LET T == copyConstruct(W, "tmp", i, r)
  IN WithRet(destroy(T, "tmp"), capacity(T, "tmp") # 0)

\* Mutant of garbageCollect(): moveAssignFrom(tmp) comes before the test.
garbageCollectMovesFirst(W, i, r) ==
  LET T == copyConstruct(W, "tmp", i, r)
  IN WithRet(destroy(moveAssignFrom(T, i, "tmp"), "tmp"),
             capacity(T, "tmp") # 0)

\* garbageCollect(): JsonDocument tmp(*this); false when tmp has no
\* capacity, else moveAssignFrom(tmp) and true.  tmp is destroyed on return.
garbageCollect(W, i, r) ==
  LET T == copyConstruct(W, "tmp", i, r)
  IN IF capacity(T, "tmp") = 0
     THEN WithRet(destroy(T, "tmp"), FALSE)
     ELSE WithRet(destroy(moveAssignFrom(T, i, "tmp"), "tmp"), TRUE)

\* Mutant of add(): the result of the allocation is not looked at.
addReportsTrue(W, i, val) == WithRet(addElement(W, i, val), TRUE)

\* Mutant of add(): the root is first converted with to<JsonArray>().
addAfterTo(W, i, val) == addElement(to(W, i, "array"), i, val)

\* add(value): add().set(value)
add(W, i, val) == addElement(W, i, val)

\* Mutant of operator[](key) = value: the root is first converted with
\* to<JsonObject>().
setMemberValueAfterTo(W, i, k, val) == setMember(to(W, i, "object"), i, k, val)

\* Mutant of operator[](key) = value: the member is appended without looking
\* for the key first.
setMemberValueAppends(W, i, k, val) ==
  LET t == W.doc[i].data.type
  IN IF t \notin {"null", "object"} THEN WithRet(W, FALSE)
     ELSE appendSlot(IF t = "null" THEN toCollection(W, i, "object") ELSE W,
                     i, k, val)

\* operator[](key) = value, through MemberProxy
setMemberValue(W, i, k, val) == setMember(W, i, k, val)

\* Mutant of remove(size_t index): the index is off by one.
removeIndexOffByOne(W, i, index) ==
  WithRet(removeElement(W, i, index + 1), TRUE)

\* remove(size_t index)
removeIndex(W, i, index) == WithRet(removeElement(W, i, index), TRUE)

\* Mutant of remove(key): the pool takes the removed slot back at once.
removeKeyFrees(W, i, k) ==
  LET W1 == removeMember(W, i, k)
  IN WithRet(IF size(W1, i) < size(W, i)
             THEN WithRes(W1, i, [W1.doc[i].resources EXCEPT !.usage = @ - 1])
             ELSE W1,
             TRUE)

\* remove(key)
removeKey(W, i, k) == WithRet(removeMember(W, i, k), TRUE)

\* operator[](key) const: data_.getMember(key); 0 stands for a null variant.
getMember(W, i, k) ==
  LET a == findMember(W, i, k)
  IN IF a = 0 THEN 0 ELSE W.mem[a].value

\* operator[](size_t index) const: data_.getElement(index); 0 stands for a
\* null variant.
getElement(W, i, index) ==
  LET c == Chain(W, i)
  IN IF W.doc[i].data.type = "array" /\ index < Len(c)
     THEN W.mem[c[index + 1]].value ELSE 0

-----------------------------------------------------------------------------
(* The state machine                                                       *)

\* The allocator's regions are interchangeable: after every call the
\* regions are renamed so that the pool of "d" comes first and the pool of
\* "o" next.  Every base, pointer and heap cell is renamed alike.
RegionOf(a) == a \div RegionSpan

CanonOrder(W) ==
  LET owned == SelectSeq(<<RegionOf(W.doc["d"].resources.base),
                           RegionOf(W.doc["o"].resources.base)>>,
                         LAMBDA r : r # 0)
      isOwned(r) == \E n \in 1..Len(owned) : owned[n] = r
  IN owned \o SelectSeq(RegionSeq, LAMBDA r : ~isOwned(r))

IsCanon(W) ==
  LET rd == RegionOf(W.doc["d"].resources.base)
      ro == RegionOf(W.doc["o"].resources.base)
  IN rd \in {0, 1} /\ ro \in {0, rd + 1}

Canon(W) ==
  LET order == CanonOrder(W)
      pos == [r \in Regions |-> CHOOSE n \in 1..Len(order) : order[n] = r]
      ren(a) == IF a = 0 \/ RegionOf(a) \notin Regions THEN a
                ELSE a + (pos[RegionOf(a)] - RegionOf(a)) * RegionSpan
      old(a) == a + (order[RegionOf(a)] - RegionOf(a)) * RegionSpan
  IN IF IsCanon(W) THEN W
     ELSE [W EXCEPT
        !.mem = [a \in Addrs |-> W.mem[old(a)]],
        !.doc = [i \in AllDocs |->
                   [resources |-> [W.doc[i].resources EXCEPT !.base = ren(@)],
                    data |-> [W.doc[i].data EXCEPT !.head = ren(@),
                                                   !.tail = ren(@)]]]]

\* No call observed.
NoCall == [op |-> "-", id |-> "d", src |-> "d", ret |-> TRUE, used |-> 0]

\* The state after construction: JsonDocument d(MaxCap); the other
\* documents have no pool and a null root, as after JsonDocument(0).
Init ==
  /\ doc = [i \in AllDocs |->
              IF i = "d"
              THEN [resources |-> allocPool(MaxCap, 1), data |-> NullData]
              ELSE [resources |-> EmptyPool, data |-> NullData]]
  /\ mem = [a \in Addrs |-> FreeSlot]
  /\ last = NoCall

\* The state after one call op on document i (with source document j)
\* that takes World to W2.  The calls named in T are observed in last.
After(T, op, i, j, W2) ==
  LET C == Canon(W2)
  IN [doc |-> C.doc, mem |-> C.mem,
      last |-> IF op \in T
               THEN [op |-> op, id |-> i, src |-> j, ret |-> W2.ret,
                     used |-> memoryUsage(World, i)]
               ELSE NoCall]

\* The regions realloc may move a shrinking pool to: its own or a free one.
ShrinkGrants(W, i) ==
  LET res == W.doc[i].resources
  IN IF res.base = 0 \/ res.usage = 0 THEN {0}
     ELSE {r \in Regions : BaseOf(r) = res.base} \cup LowestFree(W)

\* A document goes out of scope and a new one is constructed in its place.
\* (A failed allocation leaves the same document as capa = 0.)
Construct(T, i) ==
  LET D == destroy(World, i)
  IN \E capa \in 0..MaxCap :
       \E r \in IF capa = 0 THEN {0} ELSE LowestFree(D) :
         LET A == After(T, "construct", i, i, JsonDocument(D, i, capa, r))
         IN doc' = A.doc /\ mem' = A.mem /\ last' = A.last

CopyConstruct(T, i, j) ==
  /\ i # j
  /\ LET D == destroy(World, i)
     IN \E r \in Grants(D) :
          LET A == After(T, "copy", i, j, copyConstruct(D, i, j, r))
          IN doc' = A.doc /\ mem' = A.mem /\ last' = A.last

MoveConstruct(T, i, j) ==
  /\ i # j
  /\ LET A == After(T, "move", i, j,
                    WithRet(moveConstruct(destroy(World, i), i, j), TRUE))
     IN doc' = A.doc /\ mem' = A.mem /\ last' = A.last

\* d = src, src being another document or d itself.
CopyAssign(T, i, j) ==
  \E r \in Grants(World) :
    LET A == After(T, "copyAssign", i, j, copyAssignFrom(World, i, j, r))
    IN doc' = A.doc /\ mem' = A.mem /\ last' = A.last

MoveAssign(T, i, j) ==
  /\ i # j
  /\ LET A == After(T, "moveAssign", i, j,
                    WithRet(moveAssignFrom(World, i, j), TRUE))
     IN doc' = A.doc /\ mem' = A.mem /\ last' = A.last

ShrinkToFit(T, i) ==
  \E r \in ShrinkGrants(World, i) :
    LET A == After(T, "shrinkToFit", i, i,
                   WithRet(shrinkToFit(World, i, r), TRUE))
    IN doc' = A.doc /\ mem' = A.mem /\ last' = A.last

GarbageCollect(T, i) ==
  \E r \in Grants(World) :
    LET A == After(T, "garbageCollect", i, i, garbageCollect(World, i, r))
    IN doc' = A.doc /\ mem' = A.mem /\ last' = A.last

Clear(T, i) ==
  LET A == After(T, "clear", i, i, WithRet(clear(World, i), TRUE))
  IN doc' = A.doc /\ mem' = A.mem /\ last' = A.last

SetRoot(T, i) ==
  \E val \in Values :
    LET A == After(T, "set", i, i, setValue(World, i, val))
    IN doc' = A.doc /\ mem' = A.mem /\ last' = A.last

To(T, i) ==
  \E t \in {"array", "object"} :
    LET A == After(T, "to", i, i, to(World, i, t))
    IN doc' = A.doc /\ mem' = A.mem /\ last' = A.last

Add(T, i) ==
  \E val \in Values :
    LET A == After(T, "add", i, i, add(World, i, val))
    IN doc' = A.doc /\ mem' = A.mem /\ last' = A.last

SetMember(T, i) ==
  \E k \in Keys : \E val \in Values :
    LET A == After(T, "setMember", i, i, setMemberValue(World, i, k, val))
    IN doc' = A.doc /\ mem' = A.mem /\ last' = A.last

RemoveElement(T, i) ==
  \E index \in 0..(MaxCap - 1) :
    LET A == After(T, "remove", i, i, removeIndex(World, i, index))
    IN doc' = A.doc /\ mem' = A.mem /\ last' = A.last

RemoveMember(T, i) ==
  \E k \in Keys :
    LET A == After(T, "removeMember", i, i, removeKey(World, i, k))
    IN doc' = A.doc /\ mem' = A.mem /\ last' = A.last

\* The calls on one document.
Solo(T, i) ==
  \/ Construct(T, i)
  \/ ShrinkToFit(T, i)
  \/ GarbageCollect(T, i)
  \/ Clear(T, i)
  \/ SetRoot(T, i)
  \/ To(T, i)
  \/ Add(T, i)
  \/ SetMember(T, i)
  \/ RemoveElement(T, i)
  \/ RemoveMember(T, i)

\* The calls that take a second document.
Pair(T, i, j) ==
  \/ CopyConstruct(T, i, j)
  \/ MoveConstruct(T, i, j)
  \/ CopyAssign(T, i, j)
  \/ MoveAssign(T, i, j)

Next(T) == \E i \in Docs : Solo(T, i) \/ \E j \in Docs : Pair(T, i, j)

NextPlain == Next({})
NextMove == Next({"move", "moveAssign"})
NextCopy == Next({"copy"})
NextGC == Solo({"garbageCollect"}, "d")
NextShrink == Solo({"shrinkToFit"}, "d")
NextEdit == Solo({"add", "setMember", "remove", "removeMember"}, "d")
NextReset == Solo({"clear", "set", "to"}, "d")

\* Every call on "d", and "o" as the other side of copies: "o" is
\* copy-constructed or copy-assigned from "d", "d" is copy-assigned from "o"
\* or from itself.
NextAssign ==
  \/ Solo({"copy", "copyAssign"}, "d")
  \/ CopyConstruct({"copy", "copyAssign"}, "o", "d")
  \/ CopyAssign({"copy", "copyAssign"}, "o", "d")
  \/ CopyAssign({"copy", "copyAssign"}, "d", "o")
  \/ CopyAssign({"copy", "copyAssign"}, "d", "d")

\* Spec, SpecMove and SpecCopy run every call on both documents; SpecGC and
\* SpecShrink run the calls of one document.  They differ in the calls that
\* last observes.
Spec == Init /\ [][NextPlain]_vars
SpecGC == Init /\ [][NextGC]_vars
SpecMove == Init /\ [][NextMove]_vars
SpecCopy == Init /\ [][NextCopy]_vars
SpecShrink == Init /\ [][NextShrink]_vars
SpecEdit == Init /\ [][NextEdit]_vars
SpecReset == Init /\ [][NextReset]_vars
SpecAssign == Init /\ [][NextAssign]_vars

-----------------------------------------------------------------------------
(* Properties                                                              *)

rootType(W, i) == W.doc[i].data.type

\* Allocated slots that no chain reaches.
Holes(W, i) == memoryUsage(W, i) - size(W, i)

\* The root's pointers and every link of its chain address live slots of
\* the document's own pool.
RootValid(W, i) ==
  LET res == W.doc[i].resources
      v == W.doc[i].data
      c == Chain(W, i)
      inPool(a) == res.base # 0 /\ a >= res.base /\ a < res.base + res.usage
  IN /\ (v.head = 0) = (v.tail = 0)
     /\ v.head # 0 => IsCollection(v) /\ inPool(v.head) /\ inPool(v.tail)
     /\ \A n \in 1..Len(c) : inPool(c[n]) /\ W.mem[c[n]].value \in Values
     /\ v.head # 0 => Len(c) > 0 /\ c[Len(c)] = v.tail

\* The outcomes of one call of add, operator[]=, remove or shrinkToFit.
EditCalls(W, i) ==
  {add(W, i, val) : val \in Values}
  \cup {setMemberValue(W, i, k, val) : k \in Keys, val \in Values}
  \cup {removeIndex(W, i, n) : n \in 0..(MaxCap - 1)}
  \cup {removeKey(W, i, k) : k \in Keys}
  \cup {shrinkToFit(W, i, r) : r \in ShrinkGrants(W, i)}

\* The outcomes of one call of set(value), garbageCollect, copy-assignment
\* or move-assignment (from the other document).
ReplaceCalls(W, i) ==
  {setValue(W, i, val) : val \in Values}
  \cup {garbageCollect(W, i, r) : r \in Grants(W)}
  \cup {copyAssignFrom(W, i, j, r) : j \in Docs \ {i}, r \in Grants(W)}
  \cup {moveAssignFrom(W, i, j) : j \in Docs \ {i}}

\* C1 (as claimed): once overflowed() is true it stays true after add, set
\* member, remove, set root, shrinkToFit, garbageCollect, copy-assign and
\* move-assign.
C1_OverflowSticky ==
  \A i \in Docs :
    overflowed(World, i) =>
      \A W2 \in EditCalls(World, i) \cup ReplaceCalls(World, i) :
        overflowed(W2, i)

\* C1 (amended): once overflowed() is true it stays true after add, set
\* member, remove and shrinkToFit; set(value), which clears the document
\* first, leaves it false.
C1_OverflowStickyUnderEdits ==
  \A i \in Docs :
    overflowed(World, i) =>
      /\ \A W2 \in EditCalls(World, i) : overflowed(W2, i)
      /\ \A val \in Values : ~overflowed(setValue(World, i, val), i)

\* A shrinkToFit() has run on a populated document whose overflow flag is
\* (still) set.
C1_Witness ==
  /\ last.op = "shrinkToFit"
  /\ overflowed(World, last.id)
  /\ size(World, last.id) >= 1

\* C2: memoryUsage() never exceeds the capacity of the pool.
C2_UsageWithinCapacity ==
  \A i \in Docs : memoryUsage(World, i) <= capacity(World, i)

\* A full pool after a failed allocation.
C2_Witness ==
  \E i \in Docs :
    /\ overflowed(World, i)
    /\ capacity(World, i) > 0
    /\ memoryUsage(World, i) = capacity(World, i)

\* A root array that still has elements and from which elements were removed.
ArrayWithHoles(W, i) ==
  rootType(W, i) = "array" /\ size(W, i) >= 1 /\ Holes(W, i) >= 1

\* C3 (as claimed): garbageCollect() on an array with removed elements
\* leaves memoryUsage() strictly smaller.
C3_GCReclaims ==
  \A i \in Docs : \A r \in Grants(World) :
    ArrayWithHoles(World, i) =>
      memoryUsage(garbageCollect(World, i, r), i) < memoryUsage(World, i)

\* C3 (amended): garbageCollect() on an array with removed elements leaves
\* memoryUsage() strictly smaller whenever it returns true.
C3_GCReclaimsOnSuccess ==
  \A i \in Docs : \A r \in Grants(World) :
    LET G == garbageCollect(World, i, r)
    IN ArrayWithHoles(World, i) /\ G.ret =>
         memoryUsage(G, i) < memoryUsage(World, i)

\* garbageCollect() returned true on an array and memoryUsage() dropped.
C3_Witness ==
  /\ last.op = "garbageCollect" /\ last.ret
  /\ rootType(World, last.id) = "array"
  /\ size(World, last.id) >= 1
  /\ memoryUsage(World, last.id) < last.used

\* C4: when garbageCollect() returns true the root is graph-equal to the
\* root before the call (and its pointers are valid in the new pool).
C4_GCPreservesGraph ==
  \A i \in Docs : \A r \in Grants(World) :
    LET G == garbageCollect(World, i, r)
    IN G.ret => Graph(G, i) = Graph(World, i) /\ RootValid(G, i)

\* garbageCollect() returned true on an object that keeps a member and
\* lost a hole.
C4_Witness ==
  /\ last.op = "garbageCollect" /\ last.ret
  /\ rootType(World, last.id) = "object"
  /\ size(World, last.id) >= 1
  /\ memoryUsage(World, last.id) < last.used

\* C5 (as claimed): garbageCollect() returns false exactly when the
\* document is empty (root Null) or the clone got no capacity.
C5_GCFalseIffNothingCopyable ==
  \A i \in Docs : \A r \in Grants(World) :
    (garbageCollect(World, i, r).ret = FALSE)
      <=> (rootType(World, i) = "null" \/ capacity(World, i) = 0 \/ r = 0)

\* C5 (amended): garbageCollect() returns false exactly when the clone got
\* no capacity: the document's capacity is zero or the allocator failed.
C5_GCFalseIffNoCapacity ==
  \A i \in Docs : \A r \in Grants(World) :
    (garbageCollect(World, i, r).ret = FALSE)
      <=> (capacity(World, i) = 0 \/ r = 0)

\* garbageCollect() returned true on an empty document.
C5_Witness ==
  /\ last.op = "garbageCollect" /\ last.ret
  /\ rootType(World, last.id) = "null"

\* C6: when garbageCollect() returns false the document's graph,
\* memoryUsage(), capacity and overflowed() are unchanged.
C6_GCFalseUnchanged ==
  \A i \in Docs : \A r \in Grants(World) :
    LET G == garbageCollect(World, i, r)
    IN ~G.ret =>
         /\ Graph(G, i) = Graph(World, i)
         /\ memoryUsage(G, i) = memoryUsage(World, i)
         /\ capacity(G, i) = capacity(World, i)
         /\ overflowed(G, i) = overflowed(World, i)
         /\ RootValid(G, i)

\* garbageCollect() returned false on a populated document with holes.
C6_Witness ==
  /\ last.op = "garbageCollect" /\ ~last.ret
  /\ size(World, last.id) >= 1
  /\ Holes(World, last.id) >= 1
  /\ memoryUsage(World, last.id) = last.used

\* The outcomes of moving document j into document i.
MoveCalls(W, i, j) ==
  {moveAssignFrom(W, i, j), moveConstruct(destroy(W, i), i, j)}

\* C7: after a move the source has a Null root, size 0, memoryUsage 0 and
\* capacity 0, and the destination is graph-equal to the source before.
C7_MoveEmptiesSource ==
  \A i \in Docs : \A j \in Docs \ {i} : \A M \in MoveCalls(World, i, j) :
    /\ rootType(M, j) = "null"
    /\ size(M, j) = 0
    /\ memoryUsage(M, j) = 0
    /\ capacity(M, j) = 0
    /\ Graph(M, i) = Graph(World, j)
    /\ RootValid(M, i)

\* A populated document was moved: the destination holds entries, the
\* source is empty.
C7_Witness ==
  /\ last.op \in {"move", "moveAssign"}
  /\ size(World, last.id) >= 1
  /\ rootType(World, last.src) = "null"
  /\ capacity(World, last.src) = 0

\* The outcomes of one mutation of document i.
MutateCalls(W, i) ==
  EditCalls(W, i) \cup {clear(W, i)}
  \cup {garbageCollect(W, i, r) : r \in Grants(W)}

\* No mutation of document i changes the graph, memoryUsage() or
\* overflowed() of the other document j.
Independent(W, i, j) ==
  \A W2 \in MutateCalls(W, i) :
    /\ Graph(W2, j) = Graph(W, j)
    /\ memoryUsage(W2, j) = memoryUsage(W, j)
    /\ overflowed(W2, j) = overflowed(W, j)

\* C8 (as claimed): a copy-constructed document is graph-equal to its
\* populated source, and mutating the copy never changes the source.
C8_CopyEqualIndependent ==
  \A i \in Docs : \A j \in Docs \ {i} :
    /\ \A r \in Grants(destroy(World, i)) :
         rootType(World, j) # "null" =>
           Graph(copyConstruct(destroy(World, i), i, j, r), i) = Graph(World, j)
    /\ Independent(World, i, j)

\* C8 (amended): the same, provided the allocator supplied the copy's pool.
C8_CopyEqualIndependentIfAllocated ==
  \A i \in Docs : \A j \in Docs \ {i} :
    /\ \A r \in Grants(destroy(World, i)) \ {0} :
         rootType(World, j) # "null" =>
           Graph(copyConstruct(destroy(World, i), i, j, r), i) = Graph(World, j)
    /\ Independent(World, i, j)

\* A populated document was copy-constructed into its own pool.
C8_Witness ==
  /\ last.op = "copy" /\ last.ret
  /\ size(World, last.id) >= 1
  /\ Graph(World, last.id) = Graph(World, last.src)
  /\ World.doc[last.id].resources.base # World.doc[last.src].resources.base

\* C9: two shrinkToFit() calls in a row: memoryUsage() is the same after
\* both, and after each the root is valid and graph-equal to the root
\* before the first.
C9_ShrinkIdempotent ==
  \A i \in Docs : \A r1 \in ShrinkGrants(World, i) :
    LET W1 == shrinkToFit(World, i, r1)
    IN \A r2 \in ShrinkGrants(W1, i) :
         LET W2 == shrinkToFit(W1, i, r2)
         IN /\ memoryUsage(W2, i) = memoryUsage(W1, i)
            /\ RootValid(W1, i) /\ RootValid(W2, i)
            /\ Graph(W1, i) = Graph(World, i)
            /\ Graph(W2, i) = Graph(World, i)

\* shrinkToFit() has run on a populated document: the pool is exactly full.
C9_Witness ==
  /\ last.op = "shrinkToFit"
  /\ size(World, last.id) >= 1
  /\ capacity(World, last.id) = memoryUsage(World, last.id)
  /\ RootValid(World, last.id)

\* C10 (as claimed): after shrinkToFit() on a document with removed
\* entries, capacity and memoryUsage() are the size of the reachable graph.
C10_ShrinkReclaimsHoles ==
  \A i \in Docs : \A r \in ShrinkGrants(World, i) :
    LET W1 == shrinkToFit(World, i, r)
    IN Holes(World, i) >= 1 =>
         capacity(W1, i) = size(W1, i) /\ memoryUsage(W1, i) = size(W1, i)

\* C10 (amended): after shrinkToFit() the capacity equals memoryUsage(),
\* which is what it was before the call: removed entries still count.
C10_ShrinkKeepsHoles ==
  \A i \in Docs : \A r \in ShrinkGrants(World, i) :
    LET W1 == shrinkToFit(World, i, r)
    IN /\ capacity(W1, i) = memoryUsage(W1, i)
       /\ memoryUsage(W1, i) = memoryUsage(World, i)
       /\ Holes(W1, i) = Holes(World, i)

\* shrinkToFit() has run on a document with removed entries, which still
\* count.
C10_Witness ==
  /\ last.op = "shrinkToFit"
  /\ Holes(World, last.id) >= 1
  /\ capacity(World, last.id) = memoryUsage(World, last.id)
  /\ memoryUsage(World, last.id) = last.used

\* The number of members of the root object with key k.
CountKey(W, i, k) ==
  LET items == Graph(W, i).items
  IN Cardinality({n \in 1..Len(items) : items[n].key = k})

C13_RemoveKeepsMemoryUsage ==
  \A i \in Docs :
    /\ \A index \in 0..(MaxCap - 1) :
         memoryUsage(removeIndex(World, i, index), i) = memoryUsage(World, i)
    /\ \A k \in Keys :
         memoryUsage(removeKey(World, i, k), i) = memoryUsage(World, i)

\* remove(key) has unlinked a member and memoryUsage() is what it was.
C13_Witness ==
  /\ last.op = "removeMember"
  /\ rootType(World, last.id) = "object"
  /\ Holes(World, last.id) >= 1
  /\ memoryUsage(World, last.id) = last.used

\* C14: when the pool is full, add() on a Null or array root and
\* operator[]= with a new key on a Null or object root return false and
\* overflowed() is true afterwards; nothing is stored.
C14_OverflowReported ==
  \A i \in Docs : \A val \in Values :
    memoryUsage(World, i) = capacity(World, i) =>
      /\ rootType(World, i) \in {"null", "array"} =>
           LET A == add(World, i, val)
           IN /\ ~A.ret /\ overflowed(A, i)
              /\ size(A, i) = size(World, i)
              /\ memoryUsage(A, i) = memoryUsage(World, i)
      /\ \A k \in Keys :
           rootType(World, i) \in {"null", "object"}
             /\ CountKey(World, i, k) = 0 =>
               LET S == setMemberValue(World, i, k, val)
               IN /\ ~S.ret /\ overflowed(S, i)
                  /\ size(S, i) = size(World, i)
                  /\ memoryUsage(S, i) = memoryUsage(World, i)

\* add() on a full, populated root array returned false and the document
\* is overflowed.
C14_Witness ==
  /\ last.op = "add" /\ ~last.ret
  /\ rootType(World, last.id) = "array"
  /\ size(World, last.id) >= 1
  /\ last.used = capacity(World, last.id)
  /\ overflowed(World, last.id)

\* C15: add() on a root that is neither Null nor array, and operator[]= on
\* a root that is neither Null nor object, return false and leave the root
\* tag, contents, size(), memoryUsage() and overflowed() unchanged.
C15_TagMismatchNoMutation ==
  \A i \in Docs : \A val \in Values :
    /\ rootType(World, i) \notin {"null", "array"} =>
         LET A == add(World, i, val)
         IN /\ ~A.ret
            /\ Graph(A, i) = Graph(World, i)
            /\ size(A, i) = size(World, i)
            /\ memoryUsage(A, i) = memoryUsage(World, i)
            /\ overflowed(A, i) = overflowed(World, i)
    /\ \A k \in Keys :
         rootType(World, i) \notin {"null", "object"} =>
           LET S == setMemberValue(World, i, k, val)
           IN /\ ~S.ret
              /\ Graph(S, i) = Graph(World, i)
              /\ size(S, i) = size(World, i)
              /\ memoryUsage(S, i) = memoryUsage(World, i)
              /\ overflowed(S, i) = overflowed(World, i)

\* operator[]= on a populated root array with room left returned false.
C15_Witness ==
  /\ last.op = "setMember" /\ ~last.ret
  /\ rootType(World, last.id) = "array"
  /\ size(World, last.id) >= 1
  /\ memoryUsage(World, last.id) < capacity(World, last.id)
  /\ ~overflowed(World, last.id)

\* C16: after clear() the root is Null, size() and memoryUsage() are 0,
\* overflowed() is false and the capacity is what it was.
C16_ClearResets ==
  \A i \in Docs :
    LET C == clear(World, i)
    IN /\ rootType(C, i) = "null"
       /\ size(C, i) = 0
       /\ memoryUsage(C, i) = 0
       /\ ~overflowed(C, i)
       /\ capacity(C, i) = capacity(World, i)

\* clear() has emptied a document that used its pool; the capacity is kept.
C16_Witness ==
  /\ last.op = "clear"
  /\ last.used >= 1
  /\ rootType(World, last.id) = "null"
  /\ memoryUsage(World, last.id) = 0
  /\ capacity(World, last.id) >= last.used

\* C19: set(value) and to<T>() clear the document first: afterwards no
\* earlier element or member is reachable, memoryUsage() counts only the
\* new root (which takes no pool slot), and overflowed() is false.
C19_ReplaceRootClears ==
  \A i \in Docs :
    /\ \A val \in Values :
         LET S == setValue(World, i, val)
         IN /\ Graph(S, i) = [type |-> "int", value |-> val, items |-> <<>>]
            /\ size(S, i) = 0
            /\ memoryUsage(S, i) = 0
            /\ ~overflowed(S, i)
    /\ \A t \in {"array", "object"} :
         LET R == to(World, i, t)
         IN /\ Graph(R, i) = [type |-> t, value |-> 0, items |-> <<>>]
            /\ size(R, i) = 0
            /\ memoryUsage(R, i) = 0
            /\ ~overflowed(R, i)

\* to<T>() has replaced the root of a document that used its pool by an
\* empty collection.
C19_Witness ==
  /\ last.op = "to"
  /\ last.used >= 1
  /\ rootType(World, last.id) \in {"array", "object"}
  /\ size(World, last.id) = 0
  /\ memoryUsage(World, last.id) = 0

\* C17 (as claimed): the capacity of a copy-constructed document is the
\* source's memoryUsage() at the time of the copy.
C17_CopySizedToUsage ==
  \A i \in Docs : \A j \in Docs \ {i} :
    \A r \in Grants(destroy(World, i)) :
      capacity(copyConstruct(destroy(World, i), i, j, r), i)
        = memoryUsage(World, j)

\* C17 (amended): the capacity of a copy-constructed document is the
\* source's capacity (0 when the allocator supplies no pool).
C17_CopySizedToCapacity ==
  \A i \in Docs : \A j \in Docs \ {i} :
    \A r \in Grants(destroy(World, i)) :
      capacity(copyConstruct(destroy(World, i), i, j, r), i)
        = IF r = 0 THEN 0 ELSE capacity(World, j)

\* A populated document whose pool is not full was copy-constructed: the
\* copy has the source's capacity, which is more than the source uses.
C17_Witness ==
  /\ last.op = "copy"
  /\ size(World, last.src) >= 1
  /\ capacity(World, last.id) = capacity(World, last.src)
  /\ memoryUsage(World, last.src) < capacity(World, last.src)

C20_SelfAssignHarmless ==
  \A i \in Docs :
    rootType(World, i) # "null" =>
      /\ \A r \in Grants(World) :
           LET A == copyAssignFrom(World, i, i, r)
           IN Graph(A, i) = Graph(World, i) /\ size(A, i) = size(World, i)
      /\ LET S == set(World, i, i)
         IN Graph(S, i) = Graph(World, i) /\ size(S, i) = size(World, i)

====
